---- MODULE Spec2Model ----
(***************************************************************************)
(* Docker-Gen: the project-introspection engine of project_analysis.py,   *)
(* and the command-line run of main.py that writes the generated files.    *)
(*                                                                         *)
(* analyze_project_structure walks a project tree (os.walk), fills one     *)
(* context record per file visited, then runs detect_microservices,        *)
(* detect_entry_points and detect_ports on it.  Text is modelled with TLA+ *)
(* strings; a file's text is modelled by what its readers extract from it  *)
(* (the lines of a .env file, the value json.load returns, the captures    *)
(* re.findall returns).                                                    *)
(***************************************************************************)
EXTENDS Integers, Sequences, FiniteSets, TLC

VARIABLES
    project_path,   \* the argument of analyze_project_structure
    tree,           \* the files below the project root (never modified)
    pc,             \* position of the call: idle, walk, entry, ports, done
    context,        \* the context dictionary of the running call
    stack,          \* os.walk: the directories still to be listed, by depth
    files,          \* os.walk: the files of the yielded directory not yet visited
    root,           \* os.walk: the yielded directory (its path string)
    result,         \* how the last call ended: returned a context, or raised
    prev,           \* how the call before the last one ended
    env_lines,      \* parse_env_file alone: the lines of the file read
    env_out,        \* parse_env_file alone: the mapping it returned
    args,           \* main: the parsed command line (output, force)
    disk,           \* main: the files of the working and the output directory
    disk0,          \* main: the disk as it was when main started
    mpc,            \* main: its position, "off" when main is not running
    written         \* main: the artifacts write_config has written, in order

mainvars == <<args, disk, disk0, mpc, written>>

vars == <<project_path, tree, pc, context, stack, files, root, result, prev,
          env_lines, env_out, mainvars>>

----------------------------------------------------------------------------
(* Bounds of the model. *)

\* Largest number of files in a project tree.
MaxFiles == 2

\* Longest line of a .env file given to parse_env_file alone.
MaxLineLen == 6

----------------------------------------------------------------------------
(* Python strings. *)

Ch(s, i) == SubSeq(s, i, i)

StartsWith(s, p) == Len(p) <= Len(s) /\ SubSeq(s, 1, Len(p)) = p

\* str.endswith(suffix)
EndsWith(s, suf) ==
    Len(suf) <= Len(s) /\ SubSeq(s, Len(s) - Len(suf) + 1, Len(s)) = suf

\* sub in s, for two strings
RECURSIVE Contains(_, _)
Contains(s, sub) ==
    IF Len(sub) > Len(s) THEN FALSE
    ELSE IF StartsWith(s, sub) THEN TRUE
    ELSE Contains(Tail(s), sub)

\* the characters str.strip() removes (space, tab, newline, carriage return)
Whitespace == {" ", "\t", "\n", "\r"}

RECURSIVE LStrip(_, _)
LStrip(s, chars) ==
    IF s # "" /\ Ch(s, 1) \in chars THEN LStrip(Tail(s), chars) ELSE s

RECURSIVE RStrip(_, _)
RStrip(s, chars) ==
    IF s # "" /\ Ch(s, Len(s)) \in chars
    THEN RStrip(SubSeq(s, 1, Len(s) - 1), chars)
    ELSE s

\* str.strip(chars): every leading and trailing character in chars is removed
Strip(s, chars) == RStrip(LStrip(s, chars), chars)

\* index of the first occurrence of character c in s, 0 when there is none
RECURSIVE Find(_, _)
Find(s, c) ==
    IF s = "" THEN 0
    ELSE IF Ch(s, 1) = c THEN 1
    ELSE LET r == Find(Tail(s), c) IN IF r = 0 THEN 0 ELSE r + 1

\* index of the last occurrence of character c in s, 0 when there is none
RECURSIVE RFind(_, _)
RFind(s, c) ==
    IF s = "" THEN 0
    ELSE IF Ch(s, Len(s)) = c THEN Len(s)
    ELSE RFind(SubSeq(s, 1, Len(s) - 1), c)

Digits == {"0", "1", "2", "3", "4", "5", "6", "7", "8", "9"}

DigitVal(c) ==
    CASE c = "0" -> 0 [] c = "1" -> 1 [] c = "2" -> 2 [] c = "3" -> 3
      [] c = "4" -> 4 [] c = "5" -> 5 [] c = "6" -> 6 [] c = "7" -> 7
      [] c = "8" -> 8 [] c = "9" -> 9

RECURSIVE AllDigits(_)
AllDigits(s) == s = "" \/ (Ch(s, 1) \in Digits /\ AllDigits(Tail(s)))

RECURSIVE DigitsValue(_, _)
DigitsValue(s, acc) ==
    IF s = "" THEN acc ELSE DigitsValue(Tail(s), 10 * acc + DigitVal(Ch(s, 1)))

\* CPython refuses to convert a numeral of more digits than this
\* (sys.int_info.default_max_str_digits): int() raises ValueError.
INT_MAX_STR_DIGITS == 4300

\* int(s) for a string: surrounding whitespace and one sign are accepted, the
\* rest must be decimal digits.  [ok |-> FALSE] is ValueError.
PyInt(s) ==
    LET t    == Strip(s, Whitespace)
        neg  == StartsWith(t, "-")
        body == IF neg \/ StartsWith(t, "+") THEN Tail(t) ELSE t
    IN  IF body = "" \/ Len(body) > INT_MAX_STR_DIGITS THEN [ok |-> FALSE]
        ELSE IF ~AllDigits(body) THEN [ok |-> FALSE]
        ELSE [ok |-> TRUE,
              v  |-> IF neg THEN 0 - DigitsValue(body, 0)
                     ELSE DigitsValue(body, 0)]

\* sorted(S) for a set of integers
RECURSIVE Sorted(_)
Sorted(S) ==
    IF S = {} THEN <<>>
    ELSE LET m == CHOOSE x \in S : \A y \in S : x <= y
         IN  <<m>> \o Sorted(S \ {m})

Range(s) == {s[i] : i \in DOMAIN s}

(* Python dictionaries are functions; d[k] = v and d.update(e). *)
EmptyDict == [k \in {} |-> ""]
DictSet(d, k, v) == [x \in DOMAIN d \cup {k} |-> IF x = k THEN v ELSE d[x]]
DictUpdate(d, e) ==
    [x \in DOMAIN d \cup DOMAIN e |-> IF x \in DOMAIN e THEN e[x] ELSE d[x]]

----------------------------------------------------------------------------
(* pathlib and os.path, on path strings relative to the working directory. *)

\* str(Path(s)): a leading "./" is dropped
RECURSIVE PyPath(_)
PyPath(s) == IF StartsWith(s, "./") THEN PyPath(SubSeq(s, 3, Len(s))) ELSE s

\* str(Path(p) / name)
PathJoin(p, name) == IF PyPath(p) = "." THEN name ELSE PyPath(p) \o "/" \o name

\* Path(p).name
PathName(p) == IF p = "." THEN "" ELSE SubSeq(p, RFind(p, "/") + 1, Len(p))

\* str(Path(p).parent)
PathParent(p) ==
    LET i == RFind(p, "/") IN IF i = 0 THEN "." ELSE SubSeq(p, 1, i - 1)

\* os.path.join(top, dirname), as os.walk builds the path of a subdirectory
OsPathJoin(top, dirname) == top \o "/" \o dirname

----------------------------------------------------------------------------
(* JSON values, as json.load returns them. *)

JStr(s)  == [t |-> "str", s |-> s]
JNum(n)  == [t |-> "num", n |-> n]
JList(l) == [t |-> "list", l |-> l]
JObj(o)  == [t |-> "obj", o |-> o]

\* key in v: [ok |-> FALSE] is TypeError (v is a number)
PyIn(key, v) ==
    CASE v.t = "obj"  -> [ok |-> TRUE, b |-> key \in DOMAIN v.o]
      [] v.t = "list" -> [ok |-> TRUE, b |-> JStr(key) \in Range(v.l)]
      [] v.t = "str"  -> [ok |-> TRUE, b |-> Contains(v.s, key)]
      [] OTHER        -> [ok |-> FALSE]

\* v[key] for a string key: only a dict can be indexed by a string
PyGetItem(v, key) ==
    IF v.t = "obj" /\ key \in DOMAIN v.o
    THEN [ok |-> TRUE, v |-> v.o[key]]
    ELSE [ok |-> FALSE]

\* hash(v) succeeds: lists and dicts are unhashable
Hashable(v) == v.t \notin {"list", "obj"}

----------------------------------------------------------------------------
(* File contents.  A file either cannot be decoded as text (open().read()   *)
(* and json.load raise) or is text of one of these shapes.                  *)

Binary     == [kind |-> "binary"]
Text(ls)   == [kind |-> "text", lines |-> ls]
Json(v)    == [kind |-> "json", json |-> v]
\* a Dockerfile: expose is what re.findall(r'EXPOSE\s+(\d+)', content) returns
Docker(ex) == [kind |-> "docker", expose |-> ex]
\* source code: matches[i] is what re.findall(port_patterns[i], content) returns
Code(ms)   == [kind |-> "code", matches |-> ms]

Decodable(c) == c.kind # "binary"

\* the decoded lines of a file, for `for line in f`
Lines(c) == IF c.kind = "text" THEN c.lines ELSE <<>>

\* json.load(f): [ok |-> FALSE] is UnicodeDecodeError or JSONDecodeError
JsonLoad(c) ==
    IF c.kind = "json" THEN [ok |-> TRUE, v |-> c.json] ELSE [ok |-> FALSE]

\* re.findall(r'EXPOSE\s+(\d+)', content)
FindExpose(c) == IF c.kind = "docker" THEN c.expose ELSE <<>>

\* [re.findall(p, content) for p in port_patterns]
NoMatches == <<<<>>, <<>>, <<>>, <<>>>>
FindPorts(c) == IF c.kind = "code" THEN c.matches ELSE NoMatches

----------------------------------------------------------------------------
(* The file system below the project root.  A file is [dir, name, content]; *)
(* dir is the sequence of directory names from the root to the file.        *)

\* The directories of the working directory that exist.
RootDirs == {".", "proj"}

\* the path string os.walk yields for directory d of the tree
RECURSIVE DirString(_, _)
DirString(top, d) ==
    IF d = <<>> THEN top
    ELSE OsPathJoin(DirString(top, SubSeq(d, 1, Len(d) - 1)), d[Len(d)])

\* str(Path(root) / file) for file e of the tree
FileString(top, e) == PathJoin(DirString(top, e.dir), e.name)

\* open(path): the content of the file of that path
Open(path) ==
    (CHOOSE e \in tree : FileString(project_path, e) = path).content

IsPrefix(d, e) == Len(d) <= Len(e) /\ SubSeq(e, 1, Len(d)) = d

\* os.scandir(d): the files and the subdirectories of directory d
ScanFiles(d) == {e \in tree : e.dir = d}
ScanDirs(d) ==
    {SubSeq(e.dir, 1, Len(d) + 1) : e \in {x \in tree : IsPrefix(d, x.dir) /\ Len(x.dir) > Len(d)}}

\* os.scandir(top) succeeds
ScandirOk(d) == d # <<>> \/ project_path \in RootDirs

----------------------------------------------------------------------------
(* project_analysis.py *)

\* line 21: value.strip().strip("'").strip('"')
StripValue(value) == Strip(Strip(Strip(value, Whitespace), {"'"}), {"\""})

\* lines 16-21: one line of the file, added to env_vars
ParseEnvLine(env_vars, raw) ==
    LET line == Strip(raw, Whitespace)
        i    == Find(line, "=")
    IN  IF line = "" \/ StartsWith(line, "#") THEN env_vars
        ELSE IF i = 0 THEN env_vars
        ELSE DictSet(env_vars,
                     Strip(SubSeq(line, 1, i - 1), Whitespace),
                     StripValue(SubSeq(line, i + 1, Len(line))))

RECURSIVE ParseEnvLines(_, _)
ParseEnvLines(env_vars, ls) ==
    IF ls = <<>> THEN env_vars
    ELSE ParseEnvLines(ParseEnvLine(env_vars, Head(ls)), Tail(ls))

\* parse_env_file, given what open(file_path) holds; a file that cannot be
\* decoded raises inside the try and the empty mapping is returned
parse_env_file(c) ==
    IF Decodable(c) THEN ParseEnvLines(EmptyDict, Lines(c)) ELSE EmptyDict

\* register_docker_service: keeps the first service of a name
register_docker_service_first(file_path, ctx) ==
    LET service_name == PathName(PathParent(file_path))
    IN  IF service_name \in DOMAIN ctx.services THEN ctx
        ELSE [ctx EXCEPT !.services =
                DictSet(@, service_name,
                        [type |-> "docker", path |-> PathParent(file_path),
                         dockerfile |-> file_path])]

register_docker_service(file_path, ctx) ==
    LET service_name == PathName(PathParent(file_path))
    IN  [ctx EXCEPT !.services =
            DictSet(@, service_name,
                    [type |-> "docker", path |-> PathParent(file_path),
                     dockerfile |-> file_path])]

\* lines 43-48: one 'service-directory' per detected file in such a directory
service_dirs == {"src/services", "services", "apps"}

RECURSIVE ServiceDirectoryTags(_)
ServiceDirectoryTags(fs) ==
    IF fs = <<>> THEN <<>>
    ELSE (IF PathName(PathParent(Head(fs))) \in service_dirs
          THEN <<"service-directory">> ELSE <<>>)
         \o ServiceDirectoryTags(Tail(fs))

\* line 39, with the threshold one too high
detect_microservices_over_two(ctx) ==
    LET docker_services ==
            {n \in DOMAIN ctx.services : ctx.services[n].type = "docker"}
        first == IF Cardinality(docker_services) > 2
                 THEN <<"microservices">> ELSE <<>>
    IN  [ctx EXCEPT !.service_patterns =
            @ \o first \o ServiceDirectoryTags(ctx.detected_files)]

detect_microservices(ctx) ==
    LET docker_services ==
            {n \in DOMAIN ctx.services : ctx.services[n].type = "docker"}
        first == IF Cardinality(docker_services) > 1
                 THEN <<"microservices">> ELSE <<>>
    IN  [ctx EXCEPT !.service_patterns =
            @ \o first \o ServiceDirectoryTags(ctx.detected_files)]

\* lines 57-65, with the 'scripts' test of lines 62-63 left out
NodeEntriesMainOnly(c) ==
    LET pkg == JsonLoad(c) IN
    IF ~pkg.ok THEN <<>>
    ELSE
    LET hasMain == PyIn("main", pkg.v) IN
    IF ~hasMain.ok \/ ~hasMain.b THEN <<>>
    ELSE
    LET main == PyGetItem(pkg.v, "main") IN
    IF ~main.ok THEN <<>> ELSE <<main.v>>

\* lines 57-65: the entries one package.json appends; an exception ends the
\* file's block and keeps what was appended before it
NodeEntries(c) ==
    LET pkg == JsonLoad(c) IN
    IF ~pkg.ok THEN <<>>
    ELSE
    LET hasMain == PyIn("main", pkg.v) IN
    IF ~hasMain.ok THEN <<>>
    ELSE
    LET main == IF hasMain.b THEN PyGetItem(pkg.v, "main") ELSE [ok |-> TRUE] IN
    IF ~main.ok THEN <<>>
    ELSE
    LET got        == IF hasMain.b THEN <<main.v>> ELSE <<>>
        hasScripts == PyIn("scripts", pkg.v)
    IN
    IF ~hasScripts.b THEN got
    ELSE
    LET scripts == PyGetItem(pkg.v, "scripts") IN
    IF ~scripts.ok THEN got
    ELSE
    LET hasStart == PyIn("start", scripts.v) IN
    IF ~hasStart.ok \/ ~hasStart.b THEN got
    ELSE
    LET start == PyGetItem(scripts.v, "start") IN
    IF ~start.ok THEN got ELSE got \o <<start.v>>

RECURSIVE NodeEntryPoints(_)
NodeEntryPoints(fs) ==
    IF fs = <<>> THEN <<>>
    ELSE (IF EndsWith(Head(fs), "package.json")
          THEN NodeEntries(Open(Head(fs))) ELSE <<>>)
         \o NodeEntryPoints(Tail(fs))

common_entries == {"app.py", "main.py", "manage.py", "wsgi.py"}

\* line 68, selecting the base names instead of the detected paths
PythonEntryPointsNames(fs) ==
    SelectSeq([i \in DOMAIN fs |-> JStr(PathName(fs[i]))],
              LAMBDA f : f.s \in common_entries)

\* line 68
PythonEntryPoints(fs) ==
    SelectSeq([i \in DOMAIN fs |-> JStr(fs[i])],
              LAMBDA f : PathName(f.s) \in common_entries)

\* line 70
JavaEntryPoints(fs) ==
    SelectSeq([i \in DOMAIN fs |-> JStr(fs[i])],
              LAMBDA f : EndsWith(f.s, "Application.java")
                         \/ EndsWith(f.s, "Main.java"))

\* lines 52-70: the list entry_points
EntryPointList(ctx) ==
    CASE ctx.project_type = "node"   -> NodeEntryPoints(ctx.detected_files)
      [] ctx.project_type = "python" -> PythonEntryPoints(ctx.detected_files)
      [] ctx.project_type = "java"   -> JavaEntryPoints(ctx.detected_files)
      [] OTHER                       -> <<>>

\* line 71: set(entry_points) raises TypeError on an unhashable element.  The
\* order of list(set(...)) is unspecified: the field is kept as the set.
detect_entry_points(ctx) ==
    LET entry_points == EntryPointList(ctx) IN
    IF \A i \in DOMAIN entry_points : Hashable(entry_points[i])
    THEN [ok |-> TRUE, ctx |-> [ctx EXCEPT !.entry_points = Range(entry_points)]]
    ELSE [ok |-> FALSE, exc |-> "TypeError"]


\* ports.update(map(int, matches)): the values before the first numeral int()
\* refuses are added, then ValueError leaves the update
RECURSIVE UpdateInts(_, _)
UpdateInts(ports, matches) ==
    IF matches = <<>> THEN [ok |-> TRUE, ports |-> ports]
    ELSE LET n == PyInt(Head(matches)) IN
         IF ~n.ok THEN [ok |-> FALSE, ports |-> ports]
         ELSE UpdateInts(ports \cup {n.v}, Tail(matches))

\* lines 77-81
EnvPort(ctx, ports) ==
    IF "PORT" \in DOMAIN ctx.env_vars
    THEN LET n == PyInt(ctx.env_vars["PORT"]) IN
         IF n.ok THEN ports \cup {n.v} ELSE ports
    ELSE ports

\* lines 82-90; the services are independent, their order does not matter
RECURSIVE ExposePorts(_, _, _)
ExposePorts(ctx, names, ports) ==
    IF names = {} THEN ports
    ELSE LET n == CHOOSE x \in names : TRUE
             c == Open(ctx.services[n].dockerfile)
             p == IF ctx.services[n].type = "docker" /\ Decodable(c)
                  THEN UpdateInts(ports, FindExpose(c)).ports
                  ELSE ports
         IN  ExposePorts(ctx, names \ {n}, p)

\* lines 102-104: the patterns in turn, left at the first exception
RECURSIVE PatternPorts(_, _)
PatternPorts(ms, ports) ==
    IF ms = <<>> THEN ports
    ELSE LET r == UpdateInts(ports, Head(ms)) IN
         IF r.ok THEN PatternPorts(Tail(ms), r.ports) ELSE r.ports

code_extensions == {".js", ".py", ".java", ".go", ".cs"}

\* lines 97-106
RECURSIVE CodePorts(_, _)
CodePorts(fs, ports) ==
    IF fs = <<>> THEN ports
    ELSE LET file == Head(fs)
             c    == Open(file)
             p    == IF (\E ext \in code_extensions : EndsWith(file, ext))
                        /\ Decodable(c)
                     THEN PatternPorts(FindPorts(c), ports)
                     ELSE ports
         IN  CodePorts(Tail(fs), p)

\* lines 108-112
framework_ports ==
    ("node" :> 3000) @@ ("react" :> 3000) @@ ("express" :> 3000)
    @@ ("django" :> 8000) @@ ("flask" :> 5000) @@ ("spring-boot" :> 8080)
    @@ ("dotnet" :> 5000)

\* lines 113-115
FrameworkPorts(ctx, ports) ==
    ports \cup {framework_ports[f] :
                  f \in Range(ctx.frameworks) \cap DOMAIN framework_ports}

\* line 116, with the upper limit forgotten
InRangeNoUpper(p) == 1 <= p

\* line 116: 1 <= p <= 65535
InRange(p) == 1 <= p /\ p <= 65535

detect_ports(ctx) ==
    LET p1 == EnvPort(ctx, {})
        p2 == ExposePorts(ctx, DOMAIN ctx.services, p1)
        p3 == CodePorts(ctx.detected_files, p2)
        p4 == FrameworkPorts(ctx, p3)
    IN  [ctx EXCEPT !.ports = Sorted({p \in p4 : InRange(p)})]

\* lines 139-148, keeping the type of the first marker file
ProjectTypeFirst(file, old) ==
    IF old # "unknown" THEN old
    ELSE CASE file = "package.json"     -> "node"
           [] file = "requirements.txt" -> "python"
           [] file = "pom.xml"          -> "java"
           [] file = "go.mod"           -> "go"
           [] EndsWith(file, ".csproj") -> "dotnet"
           [] OTHER                     -> old

\* lines 139-148
ProjectType(file, old) ==
    CASE file = "package.json"     -> "node"
      [] file = "requirements.txt" -> "python"
      [] file = "pom.xml"          -> "java"
      [] file = "go.mod"           -> "go"
      [] EndsWith(file, ".csproj") -> "dotnet"
      [] OTHER                     -> old

\* lines 151-160: the tags one package.json adds; any exception adds none
PackageFrameworks(c) ==
    LET pkg == JsonLoad(c) IN
    IF ~pkg.ok \/ pkg.v.t # "obj" THEN <<>>
    ELSE LET deps == IF "dependencies" \in DOMAIN pkg.v.o
                     THEN pkg.v.o["dependencies"] ELSE JObj(EmptyDict)
             react   == PyIn("react", deps)
             express == PyIn("express", deps)
         IN  IF ~react.ok THEN <<>>
             ELSE (IF react.b THEN <<"react">> ELSE <<>>)
                  \o (IF express.b THEN <<"express">> ELSE <<>>)

\* lines 150-160, assigning the list instead of appending to it
AddFrameworksLast(frameworks, c) ==
    IF PackageFrameworks(c) = <<>> THEN frameworks ELSE PackageFrameworks(c)

\* lines 150-160
AddFrameworks(frameworks, c) == frameworks \o PackageFrameworks(c)

\* lines 136-164: the body of the loop over the files of a directory
VisitOne(ctx, dir, file) ==
    LET file_path == PathJoin(dir, file)
        c  == Open(file_path)
        c1 == [ctx EXCEPT !.detected_files = Append(@, file_path),
                          !.project_type = ProjectType(file, @)]
        c2 == IF file = "package.json"
              THEN [c1 EXCEPT !.frameworks = AddFrameworks(@, c)] ELSE c1
        c3 == IF file = ".env"
              THEN [c2 EXCEPT !.env_vars = DictUpdate(@, parse_env_file(c))]
              ELSE c2
    IN  IF file = "Dockerfile" THEN register_docker_service(file_path, c3)
        ELSE c3

\* line 134
pruned_dirs == {"node_modules", "venv", ".git"}

\* lines 122-132
NewContext ==
    [project_type |-> "unknown", frameworks |-> <<>>, services |-> EmptyDict,
     dependencies |-> EmptyDict, env_vars |-> EmptyDict, entry_points |-> {},
     ports |-> <<>>, detected_files |-> <<>>, service_patterns |-> <<>>]

----------------------------------------------------------------------------
(* The project trees of the model. *)

Twice(s) == s \o s
Nines16   == Twice(Twice(Twice(Twice("9"))))
Nines256  == Twice(Twice(Twice(Twice(Nines16))))
\* a numeral of 4352 digits, more than int() converts
HugeNumeral == Twice(Twice(Twice(Twice(Nines256)))) \o Nines256

\* {"dependencies": {"express": "*"}, "scripts": {"start": "node index.js"}}
PkgExpress ==
    Json(JObj([dependencies |-> JObj([express |-> JStr("*")]),
               scripts |-> JObj([start |-> JStr("node index.js")])]))
\* {"dependencies": {"react": "^18"}, "main": "index.js"}
PkgReact ==
    Json(JObj([dependencies |-> JObj([react |-> JStr("^18")]),
               main |-> JStr("index.js")]))
\* {"main": ["index.js"]}
PkgListMain == Json(JObj([main |-> JList(<<JStr("index.js")>>)]))
\* {"dependencies": 5, "main": "server.js", "scripts": "npm start"}
PkgOddTypes ==
    Json(JObj([dependencies |-> JNum(5), main |-> JStr("server.js"),
               scripts |-> JStr("npm start")]))
\* text that is not JSON
PkgInvalid == Text(<<"{">>)

File(dir, name, content) == [dir |-> dir, name |-> name, content |-> content]

CandidateFiles ==
    {File(<<>>, "package.json", c) :
        c \in {PkgExpress, PkgReact, PkgListMain, PkgOddTypes, PkgInvalid, Binary}}
    \cup
    {File(<<"a">>, "package.json", PkgExpress),
     File(<<"b">>, "package.json", PkgReact),
     File(<<"node_modules">>, "package.json", PkgReact),
     File(<<>>, "requirements.txt", Text(<<"flask">>)),
     File(<<>>, "app.py", Code(<<<<>>, <<>>, <<>>, <<"5000">>>>)),
     File(<<"a">>, "server.js", Code(<<<<"8081">>, <<"080">>, <<"0">>, <<"65536">>>>)),
     File(<<"a">>, "server.js", Code(<<<<>>, <<HugeNumeral>>, <<"9000">>, <<>>>>)),
     File(<<>>, ".env", Text(<<"PORT=8080", "DB_URL='postgres://x'">>)),
     File(<<"a">>, ".env", Text(<<"# local", "PORT = '65535' ">>)),
     File(<<"b">>, ".env", Text(<<"PORT=abc", "", "DEBUG">>)),
     File(<<"b">>, ".env", Binary),
     File(<<>>, "Dockerfile", Docker(<<"3000">>)),
     File(<<"a">>, "Dockerfile", Docker(<<"80", "443", "80">>)),
     File(<<"b">>, "Dockerfile", Docker(<<HugeNumeral, "8080">>)),
     File(<<"a", "svc">>, "Dockerfile", Docker(<<"0", "65535", "65536">>)),
     File(<<"b", "svc">>, "Dockerfile", Docker(<<"8080">>)),
     File(<<"b", "svc">>, "Dockerfile", Binary),
     File(<<>>, "pom.xml", Text(<<"<project/>">>)),
     File(<<"a">>, "Main.java", Code(<<<<>>, <<>>, <<"8443">>, <<>>>>)),
     File(<<"b">>, "go.mod", Text(<<"module m">>)),
     File(<<>>, "app.csproj", Text(<<"<Project/>">>)),
     File(<<>>, "mypackage.json", Json(JObj([main |-> JStr("other.js")]))),
     File(<<"services">>, "app.py", Code(NoMatches)),
     File(<<"services">>, "main.py", Code(NoMatches)),
     File(<<"node_modules">>, "Dockerfile", Docker(<<"9229">>))}

SamePlace(e, f) == e.dir = f.dir /\ e.name = f.name

\* the trees of at most n files, no two files at the same place
RECURSIVE Trees(_)
Trees(n) ==
    IF n = 0 THEN {{}}
    ELSE LET T == Trees(n - 1) IN
         T \cup {x[1] \cup {x[2]} :
                   x \in {y \in T \X CandidateFiles :
                            \A e \in y[1] : ~SamePlace(e, y[2])}}

ProjectPaths == RootDirs \cup {"missing"}

NoResult == [status |-> "none"]

\* main is not running: no command line, no disk
MainOff ==
    /\ args = [output |-> ".", force |-> FALSE]
    /\ disk = [files |-> EmptyDict, dirs |-> {}]
    /\ disk0 = disk
    /\ mpc = "off"
    /\ written = <<>>

----------------------------------------------------------------------------
(* analyze_project_structure, wrapped by handle_errors. *)

Init ==
    /\ project_path \in ProjectPaths
    /\ tree \in (IF project_path \in RootDirs THEN Trees(MaxFiles) ELSE {{}})
    /\ pc = "idle"
    /\ context = NewContext
    /\ stack = <<>>
    /\ files = {}
    /\ root = ""
    /\ result = NoResult
    /\ prev = NoResult
    /\ env_lines = <<>>
    /\ env_out = EmptyDict
    /\ MainOff

\* lines 120-133: the call starts, os.walk(project_path) is created.  The
\* caller may analyze the same, unmodified tree again after a call has ended.
Call ==
    /\ pc \in {"idle", "done"}
    /\ prev' = result
    /\ result' = NoResult
    /\ context' = NewContext
    /\ stack' = << {<<>>} >>
    /\ files' = {}
    /\ root' = ""
    /\ pc' = "walk"
    /\ UNCHANGED <<project_path, tree, env_lines, env_out, mainvars>>

NonEmpty(frames) == SelectSeq(frames, LAMBDA fr : fr # {})

\* lines 133-134: os.walk lists the next directory, in the order scandir gave
\* its parent's entries, and the loop body prunes its subdirectories.  A
\* directory scandir cannot list is skipped silently (onerror is None).
WalkNext ==
    /\ pc = "walk"
    /\ files = {}
    /\ stack # <<>>
    /\ \E d \in Head(stack) :
         LET rest == <<Head(stack) \ {d}>> \o Tail(stack)
             dirs == {s \in ScanDirs(d) : s[Len(s)] \notin pruned_dirs}
         IN  IF ScandirOk(d)
             THEN /\ root' = DirString(project_path, d)
                  /\ files' = {e.name : e \in ScanFiles(d)}
                  /\ stack' = NonEmpty(<<dirs>> \o rest)
             ELSE /\ stack' = NonEmpty(rest)
                  /\ UNCHANGED <<root, files>>
    /\ UNCHANGED <<project_path, tree, pc, context, result, prev,
                   env_lines, env_out, mainvars>>

\* lines 135-164: the next file of the listed directory
VisitFile ==
    /\ pc = "walk"
    /\ \E file \in files :
         /\ context' = VisitOne(context, root, file)
         /\ files' = files \ {file}
    /\ UNCHANGED <<project_path, tree, pc, stack, root, result, prev,
                   env_lines, env_out, mainvars>>

\* line 165, once os.walk is exhausted
DetectMicroservices ==
    /\ pc = "walk"
    /\ files = {}
    /\ stack = <<>>
    /\ context' = detect_microservices(context)
    /\ pc' = "entry"
    /\ UNCHANGED <<project_path, tree, stack, files, root, result, prev,
                   env_lines, env_out, mainvars>>

\* line 166; an exception leaves analyze_project_structure through
\* handle_errors, which logs it and raises it again
DetectEntryPoints ==
    /\ pc = "entry"
    /\ LET r == detect_entry_points(context) IN
       IF r.ok
       THEN /\ context' = r.ctx
            /\ pc' = "ports"
            /\ UNCHANGED result
       ELSE /\ result' = [status |-> "raised", exc |-> r.exc]
            /\ pc' = "done"
            /\ UNCHANGED context
    /\ UNCHANGED <<project_path, tree, stack, files, root, prev,
                   env_lines, env_out, mainvars>>

\* lines 167-168
DetectPorts ==
    /\ pc = "ports"
    /\ context' = detect_ports(context)
    /\ result' = [status |-> "returned", context |-> context']
    /\ pc' = "done"
    /\ UNCHANGED <<project_path, tree, stack, files, root, prev,
                   env_lines, env_out, mainvars>>

Next ==
    \/ Call
    \/ WalkNext
    \/ VisitFile
    \/ DetectMicroservices
    \/ DetectEntryPoints
    \/ DetectPorts

Spec == Init /\ [][Next]_vars

----------------------------------------------------------------------------
(* parse_env_file alone, on every one-line file over a small alphabet. *)

EnvAlphabet == {"a", "=", "'", "\"", " ", "#"}

RECURSIVE Strings(_)
Strings(n) ==
    IF n = 0 THEN {""}
    ELSE LET S == Strings(n - 1) IN
         S \cup {x[1] \o x[2] : x \in S \X EnvAlphabet}

InitEnv ==
    /\ env_lines \in {<<l>> : l \in Strings(MaxLineLen)}
    /\ env_out = EmptyDict
    /\ pc = "parse"
    /\ project_path = "."
    /\ tree = {}
    /\ context = NewContext
    /\ stack = <<>>
    /\ files = {}
    /\ root = ""
    /\ result = NoResult
    /\ prev = NoResult
    /\ MainOff

ParseEnvFile ==
    /\ pc = "parse"
    /\ env_out' = parse_env_file(Text(env_lines))
    /\ pc' = "parsed"
    /\ UNCHANGED <<project_path, tree, context, stack, files, root, result,
                   prev, env_lines, mainvars>>

NextEnv == ParseEnvFile

SpecEnv == InitEnv /\ [][NextEnv]_vars

----------------------------------------------------------------------------
(* main.py: one run of the command-line tool.  The project directory is    *)
(* "proj", a directory of its own below the working directory; the output  *)
(* directory is the working directory (the default of --output) or its     *)
(* subdirectory "out".  The disk holds the files of these two directories  *)
(* as sequences of lines or log records.                                   *)

\* Largest number of files in the project tree of a run of main.
MainMaxFiles == 1

\* main.py lines 33-43: the file names main hands to write_config, in order
artifacts == <<"Dockerfile", "docker-compose.yml", "dockerreadme.md">>

\* the values of --output
Outputs == {".", "out"}

\* logging_setup.py line 12: RotatingFileHandler('docker-gen.log', ...,
\* backupCount=5), a path relative to the working directory
LogPath == "docker-gen.log"
backupCount == 5
Backup(i) == LogPath \o "." \o ToString(i)
LogFiles == {LogPath} \cup {Backup(i) : i \in 1..backupCount}

\* the content of a file that was there before the run
OldText == <<"old">>
\* a log file whose size is so close to maxBytes that the next record makes
\* shouldRollover true
NearlyFull == <<"old, up to maxBytes">>

\* None, as message.content of a chat completion can be
PyNone == [t |-> "none"]

Remove(d, k) == [x \in DOMAIN d \ {k} |-> d[x]]

\* os.remove(dst) if it exists, then os.rename(src, dst)
Rename(d, src, dst) == DictSet(Remove(d, src), dst, d[src])

\* RotatingFileHandler.shouldRollover
shouldRollover(fs) == fs[LogPath] = NearlyFull

\* RotatingFileHandler.doRollover: .4 -> .5, ..., .1 -> .2, the log -> .1,
\* and the log is opened anew
RECURSIVE ShiftBackups(_, _)
ShiftBackups(fs, i) ==
    IF i = 0 THEN fs
    ELSE ShiftBackups(IF Backup(i) \in DOMAIN fs
                      THEN Rename(fs, Backup(i), Backup(i + 1)) ELSE fs,
                      i - 1)

doRollover(fs) ==
    DictSet(Rename(ShiftBackups(fs, backupCount - 1), LogPath, Backup(1)),
            LogPath, <<>>)

\* one record reaches the file handler of the root logger
emit(fs, record) ==
    LET f == IF shouldRollover(fs) THEN doRollover(fs) ELSE fs
    IN  DictSet(f, LogPath, Append(f[LogPath], record))

RECURSIVE EmitAll(_, _)
EmitAll(fs, records) ==
    IF records = <<>> THEN fs
    ELSE EmitAll(emit(fs, Head(records)), Tail(records))

Log(d, records) == [d EXCEPT !.files = EmitAll(@, records)]

\* logging_setup.py lines 8-15: the handler opens docker-gen.log for appending
setup_logging(d) ==
    IF LogPath \in DOMAIN d.files THEN d
    ELSE [d EXCEPT !.files = DictSet(@, LogPath, <<>>)]

\* Path.exists
Exists(d, p) == p = "." \/ p \in d.dirs \/ p \in DOMAIN d.files

\* file_operations.py lines 6-14, without the existence test
write_config_overwrite(d, output_dir, filename, content, force) ==
    LET output_path == PathJoin(output_dir, filename)
        made == [d EXCEPT !.dirs = @ \cup ({PathParent(output_path)} \ {"."})]
    IN  IF content = PyNone
        THEN [ok |-> FALSE, exc |-> "TypeError", disk |-> made]
        ELSE [ok |-> TRUE,
              disk |-> Log([made EXCEPT !.files =
                                DictSet(@, output_path, <<content.s>>)],
                           <<"INFO">>)]

\* file_operations.py lines 6-14.  Path.write_text tests the type of its
\* argument before it opens the file.
write_config(d, output_dir, filename, content, force) ==
    LET output_path == PathJoin(output_dir, filename)
        made == [d EXCEPT !.dirs = @ \cup ({PathParent(output_path)} \ {"."})]
    IN  IF Exists(d, output_path) /\ ~force
        THEN [ok |-> FALSE, exc |-> "FileExistsError", disk |-> d]
        ELSE IF content = PyNone
        THEN [ok |-> FALSE, exc |-> "TypeError", disk |-> made]
        ELSE [ok |-> TRUE,
              disk |-> Log([made EXCEPT !.files =
                                DictSet(@, output_path, <<content.s>>)],
                           <<"INFO">>)]

\* how a call of generate_dockerfile, generate_docker_compose or
\* generate_docker_readme ends: it returns the text of the completion, or
\* None, or the API call raises
Completions ==
    {[ok |-> TRUE, content |-> JStr("generated")],
     [ok |-> TRUE, content |-> PyNone],
     [ok |-> FALSE, exc |-> "APIError"]}

\* the log files a run can find: none, a short log, or a nearly full log
\* with no backup yet or with all the backups of earlier rotations
LogStates ==
    {EmptyDict, [p \in {LogPath} |-> OldText]}
    \cup {[p \in {LogPath} \cup {Backup(i) : i \in 1..k} |->
             IF p = LogPath THEN NearlyFull ELSE OldText] :
           k \in {0, backupCount}}

ArtifactPaths(output) ==
    {PathJoin(output, artifacts[i]) : i \in DOMAIN artifacts}

\* the disks a run can start on: the output directory may be missing, and
\* any of the artifacts may be there already
Disks(output) ==
    {[files |-> [p \in S |-> OldText] @@ l, dirs |-> dd] :
        S \in SUBSET ArtifactPaths(output), l \in LogStates,
        dd \in SUBSET ({output} \ {"."})}

InitMain ==
    /\ project_path = "proj"
    /\ tree \in Trees(MainMaxFiles)
    /\ pc = "idle"
    /\ context = NewContext
    /\ stack = <<>>
    /\ files = {}
    /\ root = ""
    /\ result = NoResult
    /\ prev = NoResult
    /\ env_lines = <<>>
    /\ env_out = EmptyDict
    /\ args \in [output : Outputs, force : BOOLEAN]
    /\ disk \in {d \in Disks(args.output) :
                   \A p \in DOMAIN d.files : Exists(d, PathParent(p))}
    /\ disk0 = disk
    /\ mpc = "start"
    /\ written = <<>>

\* main.py lines 12-27: the command line is parsed and logging is set up.
\* OPENAI_API_KEY is set: without it the import of config raises before main
\* is entered.
SetupLogging ==
    /\ mpc = "start"
    /\ disk' = setup_logging(disk)
    /\ mpc' = "analyze"
    /\ UNCHANGED <<project_path, tree, pc, context, stack, files, root, result,
                   prev, env_lines, env_out, args, disk0, written>>

\* main.py line 30: the steps of analyze_project_structure(args.project_dir)
Analyze ==
    /\ mpc = "analyze"
    /\ \/ pc = "idle" /\ Call
       \/ WalkNext
       \/ VisitFile
       \/ DetectMicroservices
       \/ DetectEntryPoints
       \/ DetectPorts

\* main.py lines 30 and 45-47: the analysis has ended.  Its last two records
\* are those of lines 72 and 117; when it raised, handle_errors logged the
\* error and main logs it as fatal and exits.
Analyzed ==
    /\ mpc = "analyze"
    /\ pc = "done"
    /\ IF result.status = "returned"
       THEN /\ disk' = Log(disk, <<"INFO", "INFO">>)
            /\ mpc' = "Dockerfile"
       ELSE /\ disk' = Log(disk, <<"ERROR", "CRITICAL">>)
            /\ mpc' = "exit1"
    /\ UNCHANGED <<project_path, tree, pc, context, stack, files, root, result,
                   prev, env_lines, env_out, args, disk0, written>>

\* what main does after artifact number i has been written
After(i) == IF i = Len(artifacts) THEN "success" ELSE artifacts[i + 1]

\* main.py lines 32-43: artifact number i is generated and written.  A
\* failing generation is logged at ai_generation.py line 26 and by the two
\* handle_errors wrappers around it, a failing write by handle_errors; main
\* then logs the fatal error and exits (lines 45-47).
GenerateAndWrite(i) ==
    /\ mpc = artifacts[i]
    /\ \E g \in Completions :
         IF ~g.ok
         THEN /\ disk' = Log(disk, <<"ERROR", "ERROR", "ERROR", "CRITICAL">>)
              /\ mpc' = "exit1"
              /\ UNCHANGED written
         ELSE LET w == write_config(disk, args.output, artifacts[i],
                                    g.content, args.force) IN
              IF w.ok
              THEN /\ disk' = w.disk
                   /\ written' = Append(written, artifacts[i])
                   /\ mpc' = After(i)
              ELSE /\ disk' = Log(w.disk, <<"ERROR", "CRITICAL">>)
                   /\ mpc' = "exit1"
                   /\ UNCHANGED written
    /\ UNCHANGED <<project_path, tree, pc, context, stack, files, root, result,
                   prev, env_lines, env_out, args, disk0>>

\* main.py line 44
Success ==
    /\ mpc = "success"
    /\ disk' = Log(disk, <<"INFO">>)
    /\ mpc' = "exit0"
    /\ UNCHANGED <<project_path, tree, pc, context, stack, files, root, result,
                   prev, env_lines, env_out, args, disk0, written>>

NextMain ==
    \/ SetupLogging
    \/ Analyze
    \/ Analyzed
    \/ GenerateAndWrite(1)
    \/ GenerateAndWrite(2)
    \/ GenerateAndWrite(3)
    \/ Success

SpecMain == InitMain /\ [][NextMain]_vars

----------------------------------------------------------------------------
(* The claims. *)

Done     == pc = "done"
Returned == result.status = "returned"

\* C1: when the root path does not exist, the call fails and no context is
\* returned.
C1_MissingRootFails ==
    (Done /\ project_path \notin RootDirs) => result.status = "raised"

\* C2: for an existing root, whatever the files hold, every stage completes
\* and a context is returned.
C2_NoFileMakesAnalyzeFail ==
    (Done /\ project_path \in RootDirs) => Returned

\* C3: ports is strictly ascending and every port p satisfies
\* 1 <= p <= 65535.
C3_PortsAscendingInRange ==
    LET ports == context.ports IN
    /\ \A i \in DOMAIN ports : 1 <= ports[i] /\ ports[i] <= 65535
    /\ \A i \in DOMAIN ports : i > 1 => ports[i - 1] < ports[i]

\* a returned context with several ports, from a tree in which a
\* Dockerfile exposes a number above 65535
C3_Witness ==
    /\ Done /\ Returned
    /\ Len(result.context.ports) >= 2
    /\ \E e \in tree : e.content.kind = "docker"
                       /\ "65536" \in Range(e.content.expose)

\* the numbers int() converts among the captures of a regular expression
IntsOf(matches) ==
    {PyInt(matches[i]).v : i \in {j \in DOMAIN matches : PyInt(matches[j]).ok}}

SourceEnv(ctx) ==
    IF "PORT" \in DOMAIN ctx.env_vars
    THEN IntsOf(<<ctx.env_vars["PORT"]>>) ELSE {}

SourceExpose(ctx) ==
    UNION {IntsOf(FindExpose(Open(ctx.services[n].dockerfile))) :
             n \in DOMAIN ctx.services}

SourceCode(ctx) ==
    UNION {IntsOf(FindPorts(Open(f))[k]) :
             f \in {g \in Range(ctx.detected_files) :
                      \E ext \in code_extensions : EndsWith(g, ext)},
             k \in 1..4}

SourceFrameworks(ctx) ==
    {framework_ports[f] : f \in Range(ctx.frameworks) \cap DOMAIN framework_ports}

\* C4: union law: the final ports contain every port in 1..65535 that the
\* PORT variable, the EXPOSE directives of the registered services, the code
\* patterns of the detected source files or the framework defaults contribute.
C4_UnionLaw ==
    (Done /\ Returned) =>
        LET ctx == result.context IN
        \A p \in SourceEnv(ctx) \cup SourceExpose(ctx) \cup SourceCode(ctx)
                 \cup SourceFrameworks(ctx) :
            (1 <= p /\ p <= 65535) => p \in Range(ctx.ports)

\* the positions in detected_files of the files named Dockerfile
DockerfilesVisited(fs) == {i \in DOMAIN fs : PathName(fs[i]) = "Dockerfile"}

\* C5: the keys of services are exactly the base names of the parent
\* directories of the files named Dockerfile that the walk visited, and the
\* record of a name is that of the Dockerfile visited last in such a directory.
C5_ServicesKeys ==
    LET fs == context.detected_files
        D  == DockerfilesVisited(fs)
    IN  /\ DOMAIN context.services = {PathName(PathParent(fs[i])) : i \in D}
        /\ \A k \in DOMAIN context.services :
             LET last == CHOOSE i \in D :
                            /\ PathName(PathParent(fs[i])) = k
                            /\ \A j \in D : PathName(PathParent(fs[j])) = k => j <= i
             IN  /\ context.services[k].dockerfile = fs[last]
                 /\ context.services[k].path = PathParent(fs[last])

\* a finished call that visited two Dockerfiles in two directories of the
\* same base name
C5_Witness ==
    /\ Done /\ Returned
    /\ \E i, j \in DockerfilesVisited(result.context.detected_files) :
         LET fs == result.context.detected_files IN
         /\ i < j
         /\ PathParent(fs[i]) # PathParent(fs[j])
         /\ PathName(PathParent(fs[i])) = PathName(PathParent(fs[j]))

BothReturned == Done /\ Returned /\ prev.status = "returned"

SameFields(c, d) ==
    /\ c.project_type = d.project_type
    /\ c.env_vars = d.env_vars
    /\ c.ports = d.ports
    /\ c.entry_points = d.entry_points

\* C6 as stated: two runs on the same tree yield identical project_type,
\* frameworks (as a set), env_vars, ports and entry_points, also when the
\* directory entries are enumerated in a different order.
C6_IdenticalInAnyOrder ==
    BothReturned =>
        /\ Range(prev.context.frameworks) = Range(result.context.frameworks)
        /\ SameFields(prev.context, result.context)

\* C6, amended: two runs that enumerate the directory entries in the same
\* order end the same way and yield identical project_type, frameworks,
\* env_vars, ports and entry_points; two runs that enumerate them in a
\* different order still yield the same set of frameworks.
C6_IdenticalInSameOrder ==
    /\ BothReturned =>
         Range(prev.context.frameworks) = Range(result.context.frameworks)
    /\ (BothReturned
        /\ prev.context.detected_files = result.context.detected_files) =>
         /\ prev.context.frameworks = result.context.frameworks
         /\ SameFields(prev.context, result.context)

\* two finished runs on one tree that visited the files in different orders
\* and found frameworks
C6_Witness ==
    /\ BothReturned
    /\ prev.context.detected_files # result.context.detected_files
    /\ result.context.frameworks # <<>>

\* C7: no framework tag occurs twice in frameworks.
C7_FrameworksNoDuplicates ==
    LET fw == context.frameworks IN
    \A i, j \in DOMAIN fw : i # j => fw[i] # fw[j]


\* the value with one layer of surrounding quotes removed, when its first and
\* last characters are the same quote character
OneLayerUnquoted(v) ==
    IF Len(v) >= 2 /\ Ch(v, 1) \in {"'", "\""} /\ Ch(v, Len(v)) = Ch(v, 1)
    THEN SubSeq(v, 2, Len(v) - 1)
    ELSE v

\* C8: a line that is not blank, not a comment and contains '=' is split at
\* its first '=', key and value are trimmed, and exactly one layer of matching
\* surrounding quotes is removed from the value; mismatched, one-sided or
\* further nested quotes are kept.
C8_OneLayerOfMatchingQuotes ==
    LET line == Strip(env_lines[1], Whitespace)
        i    == Find(line, "=")
    IN  (pc = "parsed" /\ line # "" /\ ~StartsWith(line, "#") /\ i > 0) =>
            env_out = (Strip(SubSeq(line, 1, i - 1), Whitespace)
                       :> OneLayerUnquoted(
                            Strip(SubSeq(line, i + 1, Len(line)), Whitespace)))

ScenarioB == {File(<<>>, "package.json", PkgExpress)}

\* C9 as stated: Scenario B yields project_type 'node', frameworks with
\* 'express', entry_points with 'index.js' and ports with 3000.
C9_ScenarioB_IndexJs ==
    (Done /\ tree = ScenarioB) =>
        /\ Returned
        /\ result.context.project_type = "node"
        /\ "express" \in Range(result.context.frameworks)
        /\ JStr("index.js") \in result.context.entry_points
        /\ 3000 \in Range(result.context.ports)

\* C9, amended: Scenario B yields project_type 'node', frameworks with
\* 'express', entry_points with the whole start command 'node index.js', and
\* ports with 3000.
C9_ScenarioB_StartCommand ==
    (Done /\ tree = ScenarioB) =>
        /\ Returned
        /\ result.context.project_type = "node"
        /\ "express" \in Range(result.context.frameworks)
        /\ JStr("node index.js") \in result.context.entry_points
        /\ 3000 \in Range(result.context.ports)

\* a finished call on the tree of Scenario B
C9_Witness == Done /\ tree = ScenarioB /\ project_path = "proj"

ScenarioA ==
    {File(<<>>, "requirements.txt", Text(<<"flask">>)),
     File(<<>>, "app.py", Code(<<<<>>, <<>>, <<>>, <<"5000">>>>))}

\* C10 as stated: Scenario A yields project_type 'python' and entry_points
\* equal to {"app.py"}, the base name of the file.
C10_ScenarioA_BaseName ==
    (Done /\ tree = ScenarioA) =>
        /\ Returned
        /\ result.context.project_type = "python"
        /\ result.context.entry_points = {JStr("app.py")}

\* C10, amended: Scenario A yields project_type 'python' and entry_points
\* equal to the one-element set holding the path of app.py as detected, the
\* root path joined with 'app.py', which is 'app.py' only for the root '.'.
C10_ScenarioA_DetectedPath ==
    (Done /\ tree = ScenarioA) =>
        /\ Returned
        /\ result.context.project_type = "python"
        /\ result.context.entry_points =
             {JStr(IF project_path = "." THEN "app.py"
                   ELSE project_path \o "/app.py")}

\* a finished call on the tree of Scenario A below a root other than '.'
C10_Witness == Done /\ tree = ScenarioA /\ project_path = "proj"


\* the stages after detect_microservices
AfterMicroservices == pc \in {"entry", "ports", "done"}

\* the directories of the tree, outside the pruned ones, that hold a Dockerfile
DockerfileDirs ==
    {e.dir : e \in {x \in tree : /\ x.name = "Dockerfile"
                                 /\ \A i \in DOMAIN x.dir : x.dir[i] \notin pruned_dirs}}

\* the base name of directory d of the tree
BaseName(d) ==
    IF d = <<>> THEN PathName(PyPath(project_path)) ELSE d[Len(d)]

\* C11 as stated: when two distinct subdirectories, at any depth, each hold a
\* Dockerfile, services has 2 entries and service_patterns contains
\* 'microservices'.
C11_TwoSubdirectories ==
    (AfterMicroservices /\ Cardinality(DockerfileDirs \ {<<>>}) = 2) =>
        /\ Cardinality(DOMAIN context.services) = 2
        /\ "microservices" \in Range(context.service_patterns)

\* C11, amended: services has one entry per distinct base name among the
\* directories that hold a visited Dockerfile, and service_patterns contains
\* 'microservices' exactly when there is more than one such name.
C11_DistinctBaseNames ==
    AfterMicroservices =>
        LET names == {BaseName(d) : d \in DockerfileDirs} IN
        /\ Cardinality(DOMAIN context.services) = Cardinality(names)
        /\ "microservices" \in Range(context.service_patterns)
             <=> Cardinality(names) > 1

\* a finished call on a tree with Dockerfiles in two subdirectories of
\* different base names
C11_Witness ==
    /\ Done /\ Returned
    /\ \E d, e \in DockerfileDirs \ {<<>>} : BaseName(d) # BaseName(e)
    /\ "microservices" \in Range(result.context.service_patterns)

\* the project type a marker file name stands for, "" for any other name
MarkerType(name) ==
    CASE name = "package.json"     -> "node"
      [] name = "requirements.txt" -> "python"
      [] name = "pom.xml"          -> "java"
      [] name = "go.mod"           -> "go"
      [] EndsWith(name, ".csproj") -> "dotnet"
      [] OTHER                     -> ""

MarkersVisited(fs) == {i \in DOMAIN fs : MarkerType(PathName(fs[i])) # ""}

LastMarkerType(fs) ==
    IF MarkersVisited(fs) = {} THEN "unknown"
    ELSE LET last == CHOOSE i \in MarkersVisited(fs) :
                        \A j \in MarkersVisited(fs) : j <= i
         IN  MarkerType(PathName(fs[last]))

\* C12: project_type is the type of the marker file visited last, 'unknown'
\* exactly when no marker file was visited, and the stages after the walk
\* leave it unchanged.
C12_LastMarkerWins ==
    /\ context.project_type = LastMarkerType(context.detected_files)
    /\ context.project_type = "unknown"
         <=> MarkersVisited(context.detected_files) = {}
    /\ (Done /\ Returned) =>
         result.context.project_type
           = LastMarkerType(result.context.detected_files)

\* a finished call that visited two marker files of different types
C12_Witness ==
    /\ Done /\ Returned
    /\ \E i, j \in MarkersVisited(result.context.detected_files) :
         LET fs == result.context.detected_files IN
         i < j /\ MarkerType(PathName(fs[i])) # MarkerType(PathName(fs[j]))


\* the 'main' value and the 'scripts.start' value of a package.json document
ManifestEntries(c) ==
    LET pkg == JsonLoad(c) IN
    IF ~pkg.ok \/ pkg.v.t # "obj" THEN {}
    ELSE (IF "main" \in DOMAIN pkg.v.o THEN {pkg.v.o["main"]} ELSE {})
         \cup
         (IF "scripts" \in DOMAIN pkg.v.o
             /\ pkg.v.o["scripts"].t = "obj"
             /\ "start" \in DOMAIN pkg.v.o["scripts"].o
          THEN {pkg.v.o["scripts"].o["start"]} ELSE {})

\* C13: for project_type 'node', entry_points is exactly the set of 'main' and
\* 'scripts.start' values of the detected files whose base name is exactly
\* 'package.json'; no other detected file contributes.
C13_OnlyPackageJson ==
    (Done /\ Returned /\ result.context.project_type = "node") =>
        result.context.entry_points =
            UNION {ManifestEntries(Open(f)) :
                     f \in {g \in Range(result.context.detected_files) :
                              PathName(g) = "package.json"}}

\* the number of occurrences of tag in the list
RECURSIVE Count(_, _)
Count(tags, tag) ==
    IF tags = <<>> THEN 0
    ELSE (IF Head(tags) = tag THEN 1 ELSE 0) + Count(Tail(tags), tag)

\* C14: after detect_microservices every tag occurs at most once in
\* service_patterns, and 'service-directory' occurs exactly once when some
\* detected file has a parent directory named 'services' or 'apps', and not
\* at all otherwise.
C14_ServicePatternsIsASet ==
    AfterMicroservices =>
        LET tags == context.service_patterns
            inServiceDir ==
                \E f \in Range(context.detected_files) :
                    PathName(PathParent(f)) \in {"services", "apps"}
        IN  /\ \A t \in Range(tags) : Count(tags, t) = 1
            /\ Count(tags, "service-directory") = (IF inServiceDir THEN 1 ELSE 0)


\* the file is on the disk with the content it had when main started
Untouched(p) == p \in DOMAIN disk.files /\ disk.files[p] = disk0.files[p]

\* the artifacts that were there when main started, by their number
ExistingArtifacts ==
    {i \in DOMAIN artifacts :
       PathJoin(args.output, artifacts[i]) \in DOMAIN disk0.files}

\* write_config refuses an existing target and main stops there; what a run
\* has written is a prefix of the sequence of artifacts
RefusesAndStops ==
    /\ written = SubSeq(artifacts, 1, Len(written))
    /\ mpc = "exit0" => written = artifacts
    /\ ~args.force =>
         /\ \A i \in ExistingArtifacts : Len(written) < i
         /\ ExistingArtifacts # {} => mpc # "exit0"

\* C15 as stated: in a run of main without --force no file that was in the
\* output directory before the run has its content changed: write_config
\* raises and writes nothing when its target exists, main stops at that first
\* failure, and the artifacts written form a prefix of Dockerfile,
\* docker-compose.yml, dockerreadme.md.
C15_NoFileOfOutputDirChanged ==
    /\ RefusesAndStops
    /\ ~args.force =>
         \A p \in DOMAIN disk0.files :
            PathParent(p) = PyPath(args.output) => Untouched(p)

\* C15, amended: in a run of main without --force no file that was on the
\* disk before the run, other than the log file docker-gen.log and its
\* rotation backups, has its content changed; write_config refuses an
\* existing target, main stops at the first failure, and the artifacts
\* written form a prefix of Dockerfile, docker-compose.yml, dockerreadme.md.
C15_NoFileButTheLogChanged ==
    /\ RefusesAndStops
    /\ ~args.force =>
         \A p \in DOMAIN disk0.files \ LogFiles : Untouched(p)

\* a run without --force that wrote the Dockerfile, was refused at the
\* docker-compose.yml that was already there, and exited with status 1
C15_Witness ==
    /\ mpc = "exit1"
    /\ ~args.force
    /\ written = <<"Dockerfile">>
    /\ 2 \in ExistingArtifacts
    /\ Untouched(PathJoin(args.output, artifacts[2]))

====
